---------------------------- MODULE Spec2Model ----------------------------
(***************************************************************************)
(* Model of the three programs of the repository:                          *)
(*   week 3  mining a block          (python/main.py, a straight script)   *)
(*   week 2  P2SH-P2WSH multisig tx  (python/main.py, functions + main)    *)
(*   week 1  interacting with a node (python/main.py, a straight script)   *)
(*                                                                         *)
(* Byte strings are sequences of tokens.  A token is one byte, or one      *)
(* 32-byte word (32 zero bytes, or a SHA-256 digest), or an opaque blob    *)
(* (the serialization of a pool transaction, a DER signature).  SHA-256 is *)
(* modelled as a collision-free constructor: the digest token carries the  *)
(* hashed data, so two digests are equal exactly when their inputs are.    *)
(* The numeric value of a block hash, which the proof-of-work loop         *)
(* compares with the target, is drawn from a table pow (one value per      *)
(* nonce) chosen when the header is assembled.                             *)
(***************************************************************************)
EXTENDS Integers, Sequences, FiniteSets, TLC

VARIABLES
    pc,                 \* position of the running program
    \* ---- week 3: mining a block
    tx_list,            \* records loaded from the mempool folder
    valid_txs,          \* records with fee and weight, sorted
    sel_i,              \* cursor of "for tx in valid_txs"
    selected_txs,
    total_weight,
    total_fees,
    coinbase_tx,        \* pass-1 coinbase (placeholder commitment)
    tx_wtxid_list,
    hash_list,          \* level of the witness merkle loop
    witness_root_hash,
    witness_commitment_value,
    coinbase_tx_final,  \* pass-2 coinbase
    coinbase_wtxid,
    tx_id_list,
    hash_items,         \* level of the transaction merkle loop
    merkle_root_hash,
    block_header,       \* 76-byte prefix
    target_threshold,   \* the configured threshold (line 10)
    target_value,
    pow,                \* pow[n]: value of hash_twice(block_header + nonce n)[::-1]
    nonce,
    mined_block_header,
    mined_nonce,
    out_file,           \* lines written to out.txt
    \* ---- week 2: multisig transaction
    tx_version,
    tx_inputs,
    tx_outputs,
    redeem_script,
    locktime,
    sighash,
    sigs,               \* <<sig1, sig2>>
    witness,
    tx_bytes,
    \* ---- week 1: fee / change loop
    utxos,
    selected_utxos,
    total_selected_amount,
    outputs,            \* the outputs dict, as a function on its keys
    attempt,
    tx_size_vb,
    total_fee_sats,
    change_amount,
    change_address,     \* unbound until line 111 assigns it
    prev_fee,           \* unbound until line 121 assigns it
    name_error          \* the unbound name a read hit, or "none"

varsBlock == <<tx_list, valid_txs, sel_i, selected_txs, total_weight, total_fees,
               coinbase_tx, tx_wtxid_list, hash_list, witness_root_hash,
               witness_commitment_value, coinbase_tx_final, coinbase_wtxid,
               tx_id_list, hash_items, merkle_root_hash>>
varsMine == <<block_header, target_threshold, target_value, pow, nonce, mined_block_header,
              mined_nonce, out_file>>
varsTx == <<tx_version, tx_inputs, tx_outputs, redeem_script, locktime, sighash,
            sigs, witness, tx_bytes>>
varsFee == <<utxos, selected_utxos, total_selected_amount, outputs, attempt,
             tx_size_vb, total_fee_sats, change_amount, change_address, prev_fee,
             name_error>>
vars == <<pc, varsBlock, varsMine, varsTx, varsFee>>

(***************************************************************************)
(* Bounds of the model.                                                    *)
(***************************************************************************)
MaxPool == 3        \* records in the mempool folder
NonceBits == 2      \* width of the nonce (32 in the program)
MaxInputs == 2      \* inputs of a week-2 transaction
MaxUtxos == 2       \* entries of listunspent

(***************************************************************************)
(* Bytes.                                                                  *)
(***************************************************************************)
Byte(b) == [t |-> "byte", n |-> b, r |-> 0, d |-> <<>>]

\* bytes(32), b'\x00' * 32: one 32-byte word of zeros
Zero32 == [t |-> "zero32", n |-> 0, r |-> 0, d |-> <<>>]

\* opaque serialized data identified by a tag and a number
Blob(tag, i) == [t |-> tag, n |-> i, r |-> 0, d |-> <<>>]

Bytes(ints) == [i \in 1..Len(ints) |-> Byte(ints[i])]

\* hashlib.sha256(data).digest(): a 32-byte string, here one digest token
sha256(data) == <<[t |-> "sha256", n |-> 0, r |-> 0, d |-> data]>>

IsWord(tok) == tok.t \in {"sha256", "ripemd160"}

\* one token read backwards: a byte and a run of zeros read the same
ReverseToken(tok) == IF IsWord(tok) THEN [tok EXCEPT !.r = 1 - tok.r] ELSE tok

\* data[::-1]
Reverse(data) == [i \in 1..Len(data) |-> ReverseToken(data[Len(data) + 1 - i])]

\* data.hex() and bytes.fromhex(text)
Hex(data) == [hex |-> data]
FromHex(text) == text.hex

TokenLen(tok) == CASE tok.t = "byte" -> 1
                   [] tok.t = "zero32" -> 32
                   [] tok.t = "sha256" -> 32
                   [] tok.t = "ripemd160" -> 20
                   [] tok.t = "der" -> tok.n
                   [] tok.t = "pubkey" -> 33
                   [] OTHER -> 0

RECURSIVE ByteLen(_)
\* len(data)
ByteLen(data) == IF data = <<>> THEN 0
                 ELSE TokenLen(Head(data)) + ByteLen(Tail(data))

RECURSIVE PackLE(_, _)
\* struct.pack('<B' | '<H' | '<I', value): width little-endian bytes
PackLE(value, width) ==
    IF width = 0 THEN <<>>
    ELSE <<Byte(value % 256)>> \o PackLE(value \div 256, width - 1)

RECURSIVE Concat(_)
\* b''.join(parts)
Concat(parts) == IF parts = <<>> THEN <<>> ELSE Head(parts) \o Concat(Tail(parts))

(***************************************************************************)
(* Week 3: constants and helper.                                           *)
(***************************************************************************)
max_block_size == 4000000

witness_reserved_value == <<Zero32>>

\* hash_twice(data)
hash_twice(data) == sha256(sha256(data))

(***************************************************************************)
(* Week 3: the mempool.  Record i of the pool carries its own id and       *)
(* serialization; <<fee, weight>> is drawn from PoolChoices, where weight 0 *)
(* stands for a record without a weight (filtered out at line 33).         *)
(***************************************************************************)
PoolChoices ==
    {<<10, 500000>>, <<10, 1000000>>, <<30, 1998000>>, <<20, 2000000>>, <<10, 0>>}

PoolRecord(i, choice) ==
    IF choice[2] = 0
    THEN [fee |-> choice[1],
          txid |-> Hex(Reverse(hash_twice(<<Blob("tx_legacy", i)>>))),
          hex |-> Hex(<<Blob("tx_extended", i)>>)]
    ELSE [fee |-> choice[1], weight |-> choice[2],
          txid |-> Hex(Reverse(hash_twice(<<Blob("tx_legacy", i)>>))),
          hex |-> Hex(<<Blob("tx_extended", i)>>)]

Pools == UNION {{[i \in 1..n |-> PoolRecord(i, c[i])] : c \in [1..n -> PoolChoices]}
                : n \in 0..MaxPool}

(***************************************************************************)
(* Week 3: transaction selection (lines 33-42).                            *)
(***************************************************************************)
\* line 33: all(field in tx for field in ('fee', 'weight'))
HasFields(tx) == {"fee", "weight"} \subseteq DOMAIN tx

\* line 33: the list comprehension
ValidTxs(pool) == SelectSeq(pool, HasFields)

\* key(a) > key(b) for key = fee / weight, weights positive; the float
\* quotients compare as the exact ratios do while fee * weight < 2^53
KeyGreater(a, b) == a.fee * b.weight > b.fee * a.weight

RECURSIVE InsertByKey(_, _)
\* put tx after every element whose key is >= its own
InsertByKey(sorted, tx) ==
    IF sorted = <<>> THEN <<tx>>
    ELSE IF KeyGreater(tx, Head(sorted)) THEN <<tx>> \o sorted
    ELSE <<Head(sorted)>> \o InsertByKey(Tail(sorted), tx)

RECURSIVE SortUnstable(_)
\* a descending sort that reverses the order of equal keys
SortUnstable(txs) ==
    IF txs = <<>> THEN <<>>
    ELSE InsertByKey(SortUnstable(Tail(txs)), Head(txs))

RECURSIVE SortByKeyReverse(_)
\* line 34: list.sort(key=..., reverse=True): descending, equal keys keep
\* their original order
SortByKeyReverse(txs) ==
    IF txs = <<>> THEN <<>>
    ELSE InsertByKey(SortByKeyReverse(SubSeq(txs, 1, Len(txs) - 1)), txs[Len(txs)])

FitsAlways(total, tx) == total <= max_block_size - 4000

\* line 38
Fits(total, tx) == (total + tx.weight) <= (max_block_size - 4000)

RECURSIVE SumFees(_)
\* line 42
SumFees(txs) == IF txs = <<>> THEN 0 ELSE Head(txs).fee + SumFees(Tail(txs))

\* lines 33-36
FilterAndSort ==
    /\ pc = "filter"
    /\ valid_txs' = SortByKeyReverse(ValidTxs(tx_list))
    /\ selected_txs' = <<>>
    /\ total_weight' = 0
    /\ sel_i' = 1
    /\ pc' = "select"
    /\ UNCHANGED <<tx_list, total_fees, coinbase_tx, tx_wtxid_list, hash_list,
                   witness_root_hash, witness_commitment_value, coinbase_tx_final,
                   coinbase_wtxid, tx_id_list, hash_items, merkle_root_hash>>
    /\ UNCHANGED <<varsMine, varsTx, varsFee>>

\* lines 37-40: one iteration of the loop
SelectStep ==
    /\ pc = "select"
    /\ sel_i <= Len(valid_txs)
    /\ LET tx == valid_txs[sel_i] IN
         IF Fits(total_weight, tx)
         THEN /\ selected_txs' = Append(selected_txs, tx)
              /\ total_weight' = total_weight + tx.weight
         ELSE UNCHANGED <<selected_txs, total_weight>>
    /\ sel_i' = sel_i + 1
    /\ UNCHANGED <<pc, tx_list, valid_txs, total_fees, coinbase_tx, tx_wtxid_list,
                   hash_list, witness_root_hash, witness_commitment_value,
                   coinbase_tx_final, coinbase_wtxid, tx_id_list, hash_items,
                   merkle_root_hash>>
    /\ UNCHANGED <<varsMine, varsTx, varsFee>>

\* line 42, after the loop ends
SelectDone ==
    /\ pc = "select"
    /\ sel_i > Len(valid_txs)
    /\ total_fees' = SumFees(selected_txs)
    /\ pc' = "coinbase_pass1"
    /\ UNCHANGED <<tx_list, valid_txs, sel_i, selected_txs, total_weight,
                   coinbase_tx, tx_wtxid_list, hash_list, witness_root_hash,
                   witness_commitment_value, coinbase_tx_final, coinbase_wtxid,
                   tx_id_list, hash_items, merkle_root_hash>>
    /\ UNCHANGED <<varsMine, varsTx, varsFee>>

(***************************************************************************)
(* Week 3: coinbase, witness commitment, merkle roots (lines 44-120).      *)
(***************************************************************************)
coinbase_version == PackLE(1, 4)        \* line 47
segwit_marker == <<Byte(0)>>            \* line 48
segwit_flag == <<Byte(1)>>              \* line 49
script_sig == PackLE(4, 1) \o Bytes(<<0, 0, 0, 0>>)     \* line 50

\* 5000000000 = 0x0000 0001 2A05 F200 as 16-bit limbs, least significant first
SubsidyLimbs == <<61952, 10757, 1, 0>>

RECURSIVE AddToLimbs(_, _)
\* limbs + carry, base 65536
AddToLimbs(limbs, carry) ==
    IF limbs = <<>> THEN <<>>
    ELSE <<(Head(limbs) + carry) % 65536>>
         \o AddToLimbs(Tail(limbs), (Head(limbs) + carry) \div 65536)

\* pack('<Q', 5000000000 + fees)
PackReward(fees) ==
    Concat([i \in 1..4 |-> PackLE(AddToLimbs(SubsidyLimbs, fees)[i], 2)])

\* bytes.fromhex('76a914000000000000000000000000000000000000000088ac')
PayoutScript ==
    Bytes(<<118, 169, 20>>) \o [i \in 1..20 |-> Byte(0)] \o Bytes(<<136, 172>>)

\* bytes.fromhex('6a24aa21a9ed')
CommitmentHeader == Bytes(<<106, 36, 170, 33, 169, 237>>)

\* lines 46-72: the first-pass coinbase
CoinbasePass1(fees) ==
    LET commitment_script == CommitmentHeader \o <<Zero32>> IN
    Concat(<<coinbase_version, segwit_marker, segwit_flag,
             <<Byte(1)>>, <<Zero32>>, Bytes(<<255, 255, 255, 255>>),
             <<Byte(ByteLen(script_sig))>>, script_sig, Bytes(<<255, 255, 255, 255>>),
             <<Byte(2)>>,
             PackReward(fees), <<Byte(25)>>, PayoutScript,
             Bytes(<<0, 0, 0, 0, 0, 0, 0, 0>>),
             <<Byte(ByteLen(commitment_script))>>, commitment_script,
             <<Byte(1)>>, <<Byte(32)>>, witness_reserved_value,
             PackLE(0, 4)>>)

\* lines 88-110: the coinbase rebuilt with the commitment
CoinbasePass2(fees, commitment) ==
    LET commitment_script == CommitmentHeader \o commitment IN
    Concat(<<coinbase_version, segwit_marker, segwit_flag,
             <<Byte(1)>>, <<Zero32>>, Bytes(<<255, 255, 255, 255>>),
             <<Byte(ByteLen(script_sig))>>, script_sig, Bytes(<<255, 255, 255, 255>>),
             <<Byte(2)>>,
             PackReward(fees), <<Byte(25)>>, PayoutScript,
             Bytes(<<0, 0, 0, 0, 0, 0, 0, 0>>),
             <<Byte(ByteLen(commitment_script))>>, commitment_script,
             <<Byte(1)>>, <<Byte(32)>>, witness_reserved_value,
             PackLE(0, 4)>>)

\* the id the script derives from a serialization: hash_twice(tx)[::-1].hex()
IdOf(serialized) == Hex(Reverse(hash_twice(serialized)))

\* a leaf list that keeps the first-pass coinbase id as its first leaf
WitnessLeavesAll(wtxids) ==
    [i \in 1..Len(wtxids) |-> Reverse(FromHex(wtxids[i]))]

\* line 79: ([bytes(32)] + [... for txid in tx_wtxid_list[1:]]) if tx_wtxid_list else []
WitnessLeaves(wtxids) ==
    IF wtxids # <<>>
    THEN <<<<Zero32>>>> \o [i \in 1..Len(wtxids) - 1 |-> Reverse(FromHex(wtxids[i + 1]))]
    ELSE <<>>

\* lines 81-83: one pass of the witness merkle loop
WitnessLevel(level) ==
    LET padded == IF Len(level) % 2 = 1 THEN Append(level, level[Len(level)])
                  ELSE level
    IN [i \in 1..(Len(padded) \div 2) |-> hash_twice(padded[2 * i - 1] \o padded[2 * i])]

\* a pass that carries an unpaired last element up unhashed
TxLevelNoDuplicate(level) ==
    [i \in 1..((Len(level) + 1) \div 2) |->
        IF 2 * i <= Len(level) THEN hash_twice(level[2 * i - 1] \o level[2 * i])
        ELSE level[2 * i - 1]]

\* lines 117-119: one pass of the transaction merkle loop
TxLevel(level) ==
    LET padded == IF Len(level) % 2 = 1 THEN Append(level, level[Len(level)])
                  ELSE level
    IN [i \in 1..(Len(padded) \div 2) |-> hash_twice(padded[2 * i - 1] \o padded[2 * i])]

\* lines 45-73
BuildCoinbasePass1 ==
    /\ pc = "coinbase_pass1"
    /\ coinbase_tx' = CoinbasePass1(total_fees)
    /\ tx_wtxid_list' = <<IdOf(coinbase_tx')>>
    /\ pc' = "wtxids"
    /\ UNCHANGED <<tx_list, valid_txs, sel_i, selected_txs, total_weight, total_fees,
                   hash_list, witness_root_hash, witness_commitment_value,
                   coinbase_tx_final, coinbase_wtxid, tx_id_list, hash_items,
                   merkle_root_hash>>
    /\ UNCHANGED <<varsMine, varsTx, varsFee>>

\* lines 75-79
ComputeWtxids ==
    /\ pc = "wtxids"
    /\ tx_wtxid_list' = tx_wtxid_list
            \o [i \in 1..Len(selected_txs) |-> IdOf(FromHex(selected_txs[i].hex))]
    /\ hash_list' = WitnessLeaves(tx_wtxid_list')
    /\ pc' = "witness_merkle"
    /\ UNCHANGED <<tx_list, valid_txs, sel_i, selected_txs, total_weight, total_fees,
                   coinbase_tx, witness_root_hash, witness_commitment_value,
                   coinbase_tx_final, coinbase_wtxid, tx_id_list, hash_items,
                   merkle_root_hash>>
    /\ UNCHANGED <<varsMine, varsTx, varsFee>>

\* lines 80-83: one iteration
WitnessMerkleStep ==
    /\ pc = "witness_merkle"
    /\ Len(hash_list) > 1
    /\ hash_list' = WitnessLevel(hash_list)
    /\ UNCHANGED <<pc, tx_list, valid_txs, sel_i, selected_txs, total_weight,
                   total_fees, coinbase_tx, tx_wtxid_list, witness_root_hash,
                   witness_commitment_value, coinbase_tx_final, coinbase_wtxid,
                   tx_id_list, hash_items, merkle_root_hash>>
    /\ UNCHANGED <<varsMine, varsTx, varsFee>>

\* lines 84-85
WitnessCommitment ==
    /\ pc = "witness_merkle"
    /\ ~(Len(hash_list) > 1)
    /\ witness_root_hash' = IF hash_list # <<>> THEN hash_list[1] ELSE <<Zero32>>
    /\ witness_commitment_value' = hash_twice(witness_root_hash' \o witness_reserved_value)
    /\ pc' = "coinbase_pass2"
    /\ UNCHANGED <<tx_list, valid_txs, sel_i, selected_txs, total_weight, total_fees,
                   coinbase_tx, tx_wtxid_list, hash_list, coinbase_tx_final,
                   coinbase_wtxid, tx_id_list, hash_items, merkle_root_hash>>
    /\ UNCHANGED <<varsMine, varsTx, varsFee>>

\* lines 88-115
BuildCoinbasePass2 ==
    /\ pc = "coinbase_pass2"
    /\ coinbase_tx_final' = CoinbasePass2(total_fees, witness_commitment_value)
    /\ coinbase_wtxid' = IdOf(coinbase_tx_final')
    /\ tx_id_list' = <<coinbase_wtxid'>>
            \o [i \in 1..Len(selected_txs) |-> selected_txs[i].txid]
    /\ hash_items' = IF tx_id_list' # <<>>
                     THEN [i \in 1..Len(tx_id_list') |-> Reverse(FromHex(tx_id_list'[i]))]
                     ELSE <<>>
    /\ pc' = "tx_merkle"
    /\ UNCHANGED <<tx_list, valid_txs, sel_i, selected_txs, total_weight, total_fees,
                   coinbase_tx, tx_wtxid_list, hash_list, witness_root_hash,
                   witness_commitment_value, merkle_root_hash>>
    /\ UNCHANGED <<varsMine, varsTx, varsFee>>

\* lines 116-119: one iteration
TxMerkleStep ==
    /\ pc = "tx_merkle"
    /\ Len(hash_items) > 1
    /\ hash_items' = TxLevel(hash_items)
    /\ UNCHANGED <<pc, tx_list, valid_txs, sel_i, selected_txs, total_weight,
                   total_fees, coinbase_tx, tx_wtxid_list, hash_list,
                   witness_root_hash, witness_commitment_value, coinbase_tx_final,
                   coinbase_wtxid, tx_id_list, merkle_root_hash>>
    /\ UNCHANGED <<varsMine, varsTx, varsFee>>

\* line 120
TxMerkleRoot ==
    /\ pc = "tx_merkle"
    /\ ~(Len(hash_items) > 1)
    /\ merkle_root_hash' = IF hash_items # <<>> THEN hash_items[1] ELSE <<Zero32>>
    /\ pc' = "header"
    /\ UNCHANGED <<tx_list, valid_txs, sel_i, selected_txs, total_weight, total_fees,
                   coinbase_tx, tx_wtxid_list, hash_list, witness_root_hash,
                   witness_commitment_value, coinbase_tx_final, coinbase_wtxid,
                   tx_id_list, hash_items>>
    /\ UNCHANGED <<varsMine, varsTx, varsFee>>

(***************************************************************************)
(* Week 3: header and proof of work (lines 122-145).  Hash values and      *)
(* thresholds are scaled to 0..2: the threshold 0 is the all-zero one.     *)
(***************************************************************************)
HashValues == {0, 1, 2}

\* line 10, on the scale of HashValues
ConfiguredTarget == 1

\* 0xFFFFFFFF, for a nonce of NonceBits bits
NonceLimit == 2 ^ NonceBits - 1

Timestamps == {1762400000, 1762400001}

\* every table of hash values, one value per nonce of the full range
AllPowTables == [0..NonceLimit -> HashValues]

\* the tables with at most one winning nonce k (none for k = NonceLimit + 1)
FirstHitTables ==
    {[n \in 0..NonceLimit |-> IF n = k THEN 0 ELSE 2] : k \in 0..(NonceLimit + 1)}

AcceptsOrEqual(hash, target) == hash <= target

\* line 134
Accepts(hash, target) == hash < target

\* lines 123-128; tables: the hash tables the header may turn out to have
AssembleHeader(tables) ==
    /\ pc = "header"
    /\ \E ts \in Timestamps :
         block_header' = Concat(<<PackLE(536870912, 4), <<Zero32>>, merkle_root_hash,
                                  PackLE(ts, 4), PackLE(520159231, 4)>>)
    /\ target_value' = target_threshold
    /\ pow' \in tables
    /\ nonce' = 0
    /\ pc' = "mine"
    /\ UNCHANGED <<target_threshold, mined_block_header, mined_nonce, out_file>>
    /\ UNCHANGED <<varsBlock, varsTx, varsFee>>

\* lines 131-137: one iteration of "for nonce in range(0, 0xFFFFFFFF)"
MineStep ==
    /\ pc = "mine"
    /\ nonce < NonceLimit
    /\ IF Accepts(pow[nonce], target_value)
       THEN /\ mined_block_header' = block_header \o PackLE(nonce, 4)
            /\ mined_nonce' = nonce
            /\ pc' = "write"
            /\ UNCHANGED nonce
       ELSE /\ nonce' = nonce + 1
            /\ UNCHANGED <<pc, mined_block_header, mined_nonce>>
    /\ UNCHANGED <<block_header, target_threshold, target_value, pow, out_file>>
    /\ UNCHANGED <<varsBlock, varsTx, varsFee>>

\* lines 138-139: the range is exhausted
NonceNotFound ==
    /\ pc = "mine"
    /\ ~(nonce < NonceLimit)
    /\ pc' = "ValueError"
    /\ UNCHANGED <<varsBlock, varsMine, varsTx, varsFee>>

\* lines 142-145
WriteOutput ==
    /\ pc = "write"
    /\ out_file' = <<Hex(mined_block_header), Hex(coinbase_tx_final)>>
            \o <<coinbase_wtxid>> \o [i \in 1..Len(selected_txs) |-> selected_txs[i].txid]
    /\ pc' = "done"
    /\ UNCHANGED <<block_header, target_threshold, target_value, pow, nonce,
                   mined_block_header, mined_nonce>>
    /\ UNCHANGED <<varsBlock, varsTx, varsFee>>

(***************************************************************************)
(* Values of the variables a program does not use or has not yet bound.    *)
(***************************************************************************)
\* a Python name is <<>> until a line binds it, then <<value>>
Unbound == <<>>
Bound(value) == <<value>>
ValueOf(name) == name[1]

IdleBlockRest ==
    /\ valid_txs = <<>> /\ sel_i = 0 /\ selected_txs = <<>>
    /\ total_weight = 0 /\ total_fees = 0 /\ coinbase_tx = <<>>
    /\ tx_wtxid_list = <<>> /\ hash_list = <<>> /\ witness_root_hash = <<>>
    /\ witness_commitment_value = <<>> /\ coinbase_tx_final = <<>>
    /\ coinbase_wtxid = Hex(<<>>) /\ tx_id_list = <<>> /\ hash_items = <<>>

IdleBlock == tx_list = <<>> /\ merkle_root_hash = <<>> /\ IdleBlockRest

IdleMineRest ==
    /\ block_header = <<>> /\ target_value = 0
    /\ pow = <<>> /\ nonce = 0 /\ mined_block_header = <<>> /\ mined_nonce = -1
    /\ out_file = <<>>

IdleMine == target_threshold = ConfiguredTarget /\ IdleMineRest

IdleTx ==
    /\ tx_version = 0 /\ tx_inputs = <<>> /\ tx_outputs = <<>> /\ redeem_script = <<>>
    /\ locktime = 0 /\ sighash = <<>> /\ sigs = <<>> /\ witness = <<>> /\ tx_bytes = <<>>

IdleFee ==
    /\ utxos = <<>> /\ selected_utxos = <<>> /\ total_selected_amount = [btc |-> 0, sat |-> 0]
    /\ outputs = <<>> /\ attempt = 0 /\ tx_size_vb = 0 /\ total_fee_sats = 0
    /\ change_amount = [btc |-> 0, sat |-> 0] /\ change_address = Unbound /\ prev_fee = Unbound
    /\ name_error = "none"

(***************************************************************************)
(* Week 3, the whole script: the mempool is the input.                     *)
(***************************************************************************)
Init ==
    /\ pc = "filter"
    /\ tx_list \in Pools
    /\ merkle_root_hash = <<>>
    /\ IdleBlockRest /\ IdleMine /\ IdleTx /\ IdleFee

Next ==
    \/ FilterAndSort
    \/ SelectStep
    \/ SelectDone
    \/ BuildCoinbasePass1
    \/ ComputeWtxids
    \/ WitnessMerkleStep
    \/ WitnessCommitment
    \/ BuildCoinbasePass2
    \/ TxMerkleStep
    \/ TxMerkleRoot
    \/ AssembleHeader(FirstHitTables)
    \/ MineStep
    \/ NonceNotFound
    \/ WriteOutput

Spec == Init /\ [][Next]_vars

(***************************************************************************)
(* Week 3, the nonce search alone: the merkle root, the threshold and the  *)
(* header's hash table are the inputs.                                     *)
(***************************************************************************)
Targets == {0, 1}

MerkleRoots == {<<Zero32>>, hash_twice(<<Zero32>> \o <<Zero32>>)}

InitMine ==
    /\ pc = "header"
    /\ tx_list = <<>>
    /\ merkle_root_hash \in MerkleRoots
    /\ target_threshold \in Targets
    /\ IdleBlockRest /\ IdleMineRest /\ IdleTx /\ IdleFee

NextMine ==
    \/ AssembleHeader(AllPowTables)
    \/ MineStep
    \/ NonceNotFound
    \/ WriteOutput

SpecMine == InitMine /\ [][NextMine]_vars

(***************************************************************************)
(* Properties of the week-3 script.                                        *)
(***************************************************************************)
RECURSIVE SumWeights(_)
SumWeights(txs) == IF txs = <<>> THEN 0 ELSE Head(txs).weight + SumWeights(Tail(txs))

\* C1: in every state of the selection loop and after it, the running total
\* is the sum of the weights of the selected transactions and is at most
\* max_block_size - 4000.
C1_WeightWithinBudget ==
    /\ total_weight = SumWeights(selected_txs)
    /\ SumWeights(selected_txs) <= max_block_size - 4000

\* the loop has ended having refused a transaction that did not fit
C1_Witness ==
    /\ pc = "coinbase_pass1"
    /\ selected_txs # <<>>
    /\ \E k \in 1..Len(valid_txs) :
         /\ \A j \in 1..Len(selected_txs) : selected_txs[j] # valid_txs[k]
         /\ total_weight + valid_txs[k].weight > max_block_size - 4000

PoolIndex(tx) == CHOOSE k \in 1..Len(tx_list) : tx_list[k] = tx

SameKey(a, b) == a.fee * b.weight = b.fee * a.weight

\* positions of valid_txs, among the first n, whose transaction was selected
SelectedPositions(n) ==
    {k \in 1..n : \E j \in 1..Len(selected_txs) : selected_txs[j] = valid_txs[k]}

RECURSIVE WeightOfPositions(_)
WeightOfPositions(ks) ==
    IF ks = {} THEN 0
    ELSE LET k == CHOOSE x \in ks : TRUE
         IN valid_txs[k].weight + WeightOfPositions(ks \ {k})

\* C2: valid_txs holds the records with fee and weight in descending
\* fee/weight order, equal ratios in pool order; the selected list is the
\* sub-sequence of the considered prefix made of each transaction that fitted
\* the budget left by the ones selected before it.
C2_OrderAndGreedy ==
    pc # "filter" =>
      /\ Len(valid_txs) = Len(ValidTxs(tx_list))
      /\ \A k \in 1..Len(tx_list) :
           HasFields(tx_list[k]) => \E i \in 1..Len(valid_txs) : valid_txs[i] = tx_list[k]
      /\ \A i, j \in 1..Len(valid_txs) :
           i < j => /\ valid_txs[i].fee * valid_txs[j].weight
                         >= valid_txs[j].fee * valid_txs[i].weight
                    /\ SameKey(valid_txs[i], valid_txs[j])
                         => PoolIndex(valid_txs[i]) < PoolIndex(valid_txs[j])
      /\ LET n == IF pc = "select" THEN sel_i - 1 ELSE Len(valid_txs)
             S == SelectedPositions(n)
         IN /\ Cardinality(S) = Len(selected_txs)
            /\ \A i, j \in 1..Len(selected_txs) :
                 i < j => \E a, b \in S : /\ a < b
                                          /\ valid_txs[a] = selected_txs[i]
                                          /\ valid_txs[b] = selected_txs[j]
            /\ \A k \in 1..n :
                 k \in S <=> WeightOfPositions({j \in S : j < k}) + valid_txs[k].weight
                                <= max_block_size - 4000

\* two equal ratios were ordered, and a refused transaction was followed by
\* an accepted one
C2_Witness ==
    /\ pc = "coinbase_pass1"
    /\ \E i, j \in 1..Len(valid_txs) : i < j /\ SameKey(valid_txs[i], valid_txs[j])
    /\ \E k, m \in 1..Len(valid_txs) :
         /\ k < m
         /\ k \notin SelectedPositions(Len(valid_txs))
         /\ m \in SelectedPositions(Len(valid_txs))

\* C3: a successful search leaves the 76-byte prefix followed by the nonce,
\* whose hash is strictly below the target, every smaller nonce having a hash
\* greater than or equal to the target.
C3_FirstWinningNonce ==
    pc \in {"write", "done"} =>
      /\ ByteLen(block_header) = 76
      /\ mined_block_header = block_header \o PackLE(mined_nonce, 4)
      /\ pow[mined_nonce] < target_value
      /\ pow[mined_nonce] # target_value
      /\ \A n \in 0..(mined_nonce - 1) : pow[n] >= target_value

\* the search succeeded after passing over a hash equal to the target
C3_Witness ==
    /\ pc = "done"
    /\ mined_nonce > 0
    /\ \E n \in 0..(mined_nonce - 1) : pow[n] = target_value

\* C4: the error is raised, with nothing written, only when no nonce of the
\* whole range 0..0xFFFFFFFF (inclusive) has a hash below the target.
C4_ErrorOnlyWhenNoNonceWins ==
    pc = "ValueError" =>
      /\ out_file = <<>>
      /\ \A n \in 0..NonceLimit : ~(pow[n] < target_value)

\* a serialization without marker, flag and witness data, for a transaction
\* laid out as the coinbase is: one witness stack of one 32-byte item
LegacyForm(tx) ==
    SubSeq(tx, 1, 4) \o SubSeq(tx, 7, Len(tx) - 7) \o SubSeq(tx, Len(tx) - 3, Len(tx))

\* the level of a merkle loop is still the leaf list
FreshLeaves(level) == Len(level) = Len(selected_txs) + 1

\* C5: the coinbase leaf of the transaction merkle tree, and the first id
\* written, is the id of the final coinbase's legacy serialization; the other
\* leaves are the selected txids in order.
C5_CoinbaseLeafIsLegacyId ==
    /\ (pc = "tx_merkle" /\ FreshLeaves(hash_items)) =>
         /\ hash_items[1] = hash_twice(LegacyForm(coinbase_tx_final))
         /\ \A i \in 1..Len(selected_txs) :
              hash_items[i + 1] = Reverse(FromHex(selected_txs[i].txid))
    /\ pc = "done" => out_file[3] = IdOf(LegacyForm(coinbase_tx_final))

RECURSIVE MerkleRootOf(_)
\* the root of a non-empty leaf list: the leaf itself for one leaf, else the
\* root of the level above, an odd level first repeating its last element
MerkleRootOf(leaves) ==
    IF Len(leaves) = 1 THEN leaves[1]
    ELSE LET padded == IF Len(leaves) % 2 = 1 THEN Append(leaves, leaves[Len(leaves)])
                       ELSE leaves
         IN MerkleRootOf([i \in 1..(Len(padded) \div 2) |->
                            hash_twice(padded[2 * i - 1] \o padded[2 * i])])

\* [32 zero bytes] followed by the witness ids of the selected transactions
ExpectedWitnessLeaves ==
    <<<<Zero32>>>> \o [i \in 1..Len(selected_txs) |->
                         hash_twice(FromHex(selected_txs[i].hex))]

\* the script of the coinbase's output 1: the 7 tokens before the witness
CommitmentScript(tx) == SubSeq(tx, Len(tx) - 13, Len(tx) - 7)

\* C6: the final coinbase commits to SHA256d(witnessRoot || reservedValue),
\* witnessRoot being the merkle root of [32 zero bytes] followed by the
\* selected transactions' witness ids; the first-pass id is no leaf; the two
\* coinbases differ only in the 32 commitment bytes.
C6_CommitmentInFinalCoinbase ==
    /\ (pc = "witness_merkle" /\ FreshLeaves(hash_list)) =>
         /\ hash_list = ExpectedWitnessLeaves
         /\ \A i \in 1..Len(hash_list) :
              hash_list[i] # Reverse(FromHex(tx_wtxid_list[1]))
    /\ pc \in {"tx_merkle", "header", "mine", "write", "done", "ValueError"} =>
         /\ CommitmentScript(coinbase_tx_final)
              = Bytes(<<106, 36, 170, 33, 169, 237>>)
                  \o hash_twice(MerkleRootOf(ExpectedWitnessLeaves) \o <<Zero32>>)
         /\ coinbase_tx_final[Len(coinbase_tx_final) - 14] = Byte(38)
         /\ Len(coinbase_tx_final) = Len(coinbase_tx)
         /\ coinbase_tx[Len(coinbase_tx) - 7] = Zero32
         /\ \A i \in 1..Len(coinbase_tx) :
              i # Len(coinbase_tx) - 7 => coinbase_tx_final[i] = coinbase_tx[i]

\* a block of the coinbase and two selected transactions was written
C6_Witness ==
    /\ pc = "done"
    /\ Len(selected_txs) = 2
    /\ coinbase_tx_final # coinbase_tx

\* the leaf list of the transaction merkle tree
TxLeaves == [i \in 1..Len(tx_id_list) |-> Reverse(FromHex(tx_id_list[i]))]

C9_Roots ==
    /\ pc = "witness_merkle" =>
         /\ Len(hash_list) >= 1
         /\ MerkleRootOf(hash_list) = MerkleRootOf(ExpectedWitnessLeaves)
    /\ pc = "tx_merkle" =>
         /\ Len(hash_items) >= 1
         /\ MerkleRootOf(hash_items) = MerkleRootOf(TxLeaves)
    /\ pc \in {"header", "mine", "write", "done", "ValueError"} =>
         /\ witness_root_hash = MerkleRootOf(ExpectedWitnessLeaves)
         /\ merkle_root_hash = MerkleRootOf(TxLeaves)
         /\ LET l == TxLeaves IN
              /\ Len(l) = 1 => merkle_root_hash = l[1]
              /\ Len(l) = 2 => merkle_root_hash = hash_twice(l[1] \o l[2])
              /\ Len(l) = 3 => merkle_root_hash =
                     hash_twice(hash_twice(l[1] \o l[2]) \o hash_twice(l[3] \o l[3]))
         /\ LET w == ExpectedWitnessLeaves IN
              /\ Len(w) = 1 => witness_root_hash = w[1]
              /\ Len(w) = 2 => witness_root_hash = hash_twice(w[1] \o w[2])
              /\ Len(w) = 3 => witness_root_hash =
                     hash_twice(hash_twice(w[1] \o w[2]) \o hash_twice(w[3] \o w[3]))

\* C9: both merkle loops end, each iteration shortening the level, and both
\* return the leaf for one leaf, SHA256d(a || b) for two, and for an odd level
\* the reduction of the level with its last element repeated.
C9_MerkleReduction ==
    /\ []C9_Roots
    /\ [][/\ (pc = "witness_merkle" /\ pc' = "witness_merkle")
               => Len(hash_list') < Len(hash_list)
          /\ (pc = "tx_merkle" /\ pc' = "tx_merkle")
               => Len(hash_items') < Len(hash_items)]_vars

\* both loops ran on three leaves
C9_Witness ==
    /\ pc = "header"
    /\ Len(tx_id_list) = 3
    /\ Len(tx_wtxid_list) = 3

(***************************************************************************)
(* Week 2: the multisig transaction (functions of main.py, then main).     *)
(***************************************************************************)
\* lines 8-17; the model's integers stay below 2^31, so value <= 0xffffffff
\* is stated on the upper 16 bits
serialize_varint(value) ==
    IF value < 253 THEN <<Byte(value)>>
    ELSE IF value <= 65535 THEN <<Byte(253)>> \o PackLE(value, 2)
    ELSE IF value \div 65536 <= 65535 THEN <<Byte(254)>> \o PackLE(value, 4)
    ELSE <<Byte(255)>> \o PackLE(value, 8)

\* lines 20-22
create_witness_program(script) == Bytes(<<0, 32>>) \o sha256(script)

\* lines 25-27
create_scriptSig(witness_program) ==
    serialize_varint(ByteLen(witness_program)) \o witness_program

\* hashlib.new('ripemd160', data).digest()
ripemd160(data) == <<[t |-> "ripemd160", n |-> 0, r |-> 0, d |-> data]>>

\* base58.b58encode_check(payload).decode() and base58.b58decode_check(text)
b58encode_check(payload) == [b58check |-> payload]
b58decode_check(text) == text.b58check

\* lines 30-33
derive_p2sh_address(witness_program) ==
    b58encode_check(<<Byte(5)>> \o ripemd160(sha256(witness_program)))

\* lines 36-40
create_scriptPubKey(output_address) ==
    LET decoded == b58decode_check(output_address)
        output_hash160 == Tail(decoded)
    IN Bytes(<<169, 20>>) \o output_hash160 \o Bytes(<<135>>)

\* lines 43-51
serialize_inputs(ins) ==
    Concat([i \in 1..Len(ins) |->
              ins[i].prev_txid \o PackLE(ins[i].prev_index, 4)
                \o serialize_varint(ByteLen(ins[i].script_sig)) \o ins[i].script_sig
                \o PackLE(ins[i].sequence, 4)])

\* lines 54-60
serialize_outputs(outs) ==
    Concat([i \in 1..Len(outs) |->
              PackLE(outs[i].value, 8)
                \o serialize_varint(ByteLen(outs[i].script_pubkey))
                \o outs[i].script_pubkey])

\* lines 63-94
calculate_sighash(version, ins, outs, script, lock) ==
    LET prevouts == sha256(sha256(Concat(
            [i \in 1..Len(ins) |-> ins[i].prev_txid \o PackLE(ins[i].prev_index, 4)])))
        sequences == sha256(sha256(Concat(
            [i \in 1..Len(ins) |-> PackLE(ins[i].sequence, 4)])))
        scriptCode == serialize_varint(ByteLen(script)) \o script
        outputs_hash == sha256(sha256(Concat(
            [i \in 1..Len(outs) |->
               PackLE(outs[i].value, 8)
                 \o serialize_varint(ByteLen(outs[i].script_pubkey))
                 \o outs[i].script_pubkey])))
        preimage == Concat(<<PackLE(version, 4),
                             prevouts,
                             sequences,
                             ins[1].prev_txid,
                             PackLE(ins[1].prev_index, 4),
                             scriptCode,
                             PackLE(100000, 8),
                             PackLE(ins[1].sequence, 4),
                             outputs_hash,
                             PackLE(0, 4),
                             PackLE(1, 4)>>)
    IN sha256(sha256(preimage))

\* priv.sign_digest(digest, sigencode=sigencode_der): a DER signature of
\* der_len bytes under key number key
sign_digest(key, digest, der_len) ==
    <<[t |-> "der", n |-> der_len, r |-> 0, d |-> <<Blob("privkey", key)>> \o digest]>>

\* lengths a DER-encoded secp256k1 signature takes
DerLengths == {70, 71, 72}

\* lines 97-105
generate_signatures(digest, len1, len2) ==
    <<sign_digest(1, digest, len1) \o Bytes(<<1>>),
      sign_digest(2, digest, len2) \o Bytes(<<1>>)>>

\* lines 108-129
assemble_transaction(version, ins, outs, wit, lock) ==
    Concat(<<PackLE(version, 4),
             Bytes(<<0, 1>>),
             serialize_varint(Len(ins)),
             serialize_inputs(ins),
             serialize_varint(Len(outs)),
             serialize_outputs(outs),
             serialize_varint(Len(wit)),
             Concat([i \in 1..Len(wit) |-> serialize_varint(ByteLen(wit[i])) \o wit[i]]),
             PackLE(lock, 4)>>)

\* line 140: OP_2 <pubkey1> <pubkey2> OP_2 OP_CHECKMULTISIG, 71 bytes
RedeemScript ==
    Bytes(<<82, 33>>) \o <<Blob("pubkey", 1)>> \o Bytes(<<33>>) \o <<Blob("pubkey", 2)>>
      \o Bytes(<<82, 174>>)

\* line 160, as the address of some 20-byte script hash
OutputAddress == b58encode_check(<<Byte(5)>> \o ripemd160(<<Blob("script", 1)>>))

\* inputs a transaction may spend (lines 153-158 give the first)
CandidateInputs ==
    {[prev_txid |-> <<Zero32>>, prev_index |-> 0,
      script_sig |-> create_scriptSig(create_witness_program(RedeemScript)),
      sequence |-> 2147483647],
     [prev_txid |-> hash_twice(<<Blob("tx_legacy", 1)>>), prev_index |-> 1,
      script_sig |-> create_scriptSig(create_witness_program(RedeemScript)),
      sequence |-> 0],
     [prev_txid |-> hash_twice(<<Blob("tx_legacy", 2)>>), prev_index |-> 0,
      script_sig |-> <<>>,
      sequence |-> 2147483646]}

\* lists of distinct inputs
InputLists ==
    UNION {{l \in [1..n -> CandidateInputs] : \A i, j \in 1..n : i # j => l[i] # l[j]}
           : n \in 1..MaxInputs}

OutputValues == {100000, 50000}

InitTx ==
    /\ pc = "sighash"
    /\ tx_version \in {1, 2}
    /\ tx_inputs \in InputLists
    /\ \E v \in OutputValues :
         tx_outputs = <<[value |-> v, script_pubkey |-> create_scriptPubKey(OutputAddress)]>>
    /\ redeem_script = RedeemScript
    /\ locktime \in {0, 1}
    /\ sighash = <<>> /\ sigs = <<>> /\ witness = <<>> /\ tx_bytes = <<>>
    /\ IdleBlock /\ IdleMine /\ IdleFee

\* line 169
ComputeSighash ==
    /\ pc = "sighash"
    /\ sighash' = calculate_sighash(tx_version, tx_inputs, tx_outputs, redeem_script,
                                    locktime)
    /\ pc' = "sign"
    /\ UNCHANGED <<tx_version, tx_inputs, tx_outputs, redeem_script, locktime, sigs,
                   witness, tx_bytes>>
    /\ UNCHANGED <<varsBlock, varsMine, varsFee>>

\* lines 173-186
SignAndBuildWitness ==
    /\ pc = "sign"
    /\ \E len1, len2 \in DerLengths :
         sigs' = generate_signatures(sighash, len1, len2)
    /\ witness' = <<<<>>, sigs'[2], sigs'[1], redeem_script>>
    /\ pc' = "assemble"
    /\ UNCHANGED <<tx_version, tx_inputs, tx_outputs, redeem_script, locktime, sighash,
                   tx_bytes>>
    /\ UNCHANGED <<varsBlock, varsMine, varsFee>>

\* line 191
AssembleTransaction ==
    /\ pc = "assemble"
    /\ tx_bytes' = assemble_transaction(tx_version, tx_inputs, tx_outputs, witness,
                                        locktime)
    /\ pc' = "write"
    /\ UNCHANGED <<tx_version, tx_inputs, tx_outputs, redeem_script, locktime, sighash,
                   sigs, witness>>
    /\ UNCHANGED <<varsBlock, varsMine, varsFee>>

\* lines 132-135, 194
WriteTransaction ==
    /\ pc = "write"
    /\ out_file' = <<Hex(tx_bytes)>>
    /\ pc' = "done"
    /\ UNCHANGED <<block_header, target_threshold, target_value, pow, nonce,
                   mined_block_header, mined_nonce>>
    /\ UNCHANGED <<varsBlock, varsTx, varsFee>>

NextTx ==
    \/ ComputeSighash
    \/ SignAndBuildWitness
    \/ AssembleTransaction
    \/ WriteTransaction

SpecTx == InitTx /\ [][NextTx]_vars

(***************************************************************************)
(* Properties of the week-2 functions.                                     *)
(***************************************************************************)
RECURSIVE DropBytes(_, _)
\* data without its first count bytes; not ok when data is shorter or a token
\* straddles the cut
DropBytes(data, count) ==
    IF count = 0 THEN [ok |-> TRUE, rest |-> data]
    ELSE IF data = <<>> \/ TokenLen(Head(data)) > count \/ TokenLen(Head(data)) = 0
         THEN [ok |-> FALSE, rest |-> <<>>]
         ELSE DropBytes(Tail(data), count - TokenLen(Head(data)))

\* a one-byte VarInt at the head of data
HasShortVarInt(data) == data # <<>> /\ Head(data).t = "byte" /\ Head(data).n < 253

RECURSIVE DropItems(_, _)
\* data without its first count items, each VarInt(len) then len bytes
DropItems(data, count) ==
    IF count = 0 THEN [ok |-> TRUE, rest |-> data]
    ELSE IF ~HasShortVarInt(data) THEN [ok |-> FALSE, rest |-> <<>>]
    ELSE LET after == DropBytes(Tail(data), Head(data).n)
         IN IF after.ok THEN DropItems(after.rest, count - 1) ELSE after

RECURSIVE CountStacks(_)
\* the number of witness stacks data is made of, each VarInt(item count) then
\* the items; -1 when data is not a sequence of whole stacks
CountStacks(data) ==
    IF data = <<>> THEN 0
    ELSE IF ~HasShortVarInt(data) THEN -1
    ELSE LET after == DropItems(Tail(data), Head(data).n)
         IN IF ~after.ok THEN -1
            ELSE IF CountStacks(after.rest) = -1 THEN -1
            ELSE 1 + CountStacks(after.rest)

\* the bytes of tx_bytes after the outputs and before the locktime
WitnessSection ==
    LET before == 4 + 2 + Len(serialize_varint(Len(tx_inputs)))
                    + Len(serialize_inputs(tx_inputs))
                    + Len(serialize_varint(Len(tx_outputs)))
                    + Len(serialize_outputs(tx_outputs))
    IN SubSeq(tx_bytes, before + 1, Len(tx_bytes) - 4)

\* C7: the assembled transaction holds, between outputs and locktime, one
\* witness stack per input.
C7_OneStackPerInput ==
    pc \in {"write", "done"} => CountStacks(WitnessSection) = Len(tx_inputs)

\* the preimage whose double SHA-256 a digest is
PreimageOf(digest) == digest[1].d[1].d

\* C8: the locktime field of the signed preimage (the 4 bytes before the
\* sighash type) is the little-endian locktime argument.
C8_PreimageCarriesLocktime ==
    pc # "sighash" =>
      LET preimage == PreimageOf(sighash)
      IN SubSeq(preimage, Len(preimage) - 7, Len(preimage) - 4) = PackLE(locktime, 4)

(***************************************************************************)
(* Week 1: UTXO selection and the fee / change loop (lines 47-137).        *)
(* A Decimal amount of BTC with 8 decimals is a pair: whole BTC and the    *)
(* remaining satoshis (0..99999999); a negative amount has btc < 0.        *)
(***************************************************************************)
SatsPerBtc == 100000000

Amount(btc, sat) == [btc |-> btc + (sat \div SatsPerBtc), sat |-> sat % SatsPerBtc]

AmountAdd(x, y) == Amount(x.btc + y.btc, x.sat + y.sat)
AmountSub(x, y) == Amount(x.btc - y.btc, x.sat - y.sat)
IsNegative(x) == x.btc < 0
IsZero(x) == x.btc = 0 /\ x.sat = 0
IsPositive(x) == ~IsNegative(x) /\ ~IsZero(x)

\* line 48: Decimal("100.0"), in whole BTC
required_btc == 100
required_amount == Amount(required_btc, 0)

\* line 63: required_amount * Decimal("1.1")
BufferedRequired == Amount((required_btc * 11) \div 10,
                           ((required_btc * 11) % 10) * (SatsPerBtc \div 10))

fee_rate == 21          \* line 88
max_attempts == 3       \* line 89

\* amounts listunspent may report
UtxoAmounts == {Amount(50, 0), Amount(100, 2000), Amount(100, 2961),
                Amount(100, 3612), Amount(120, 0)}

UtxoLists ==
    UNION {{[i \in 1..n |-> [txid |-> i, vout |-> 0, amount |-> a[i]]]
              : a \in [1..n -> UtxoAmounts]} : n \in 0..MaxUtxos}

\* virtual sizes decoderawtransaction may report for the signed transaction
VSizes == {141, 172}

RECURSIVE SumAmounts(_, _)
\* total of the first n amounts
SumAmounts(list, n) ==
    IF n = 0 THEN Amount(0, 0) ELSE AmountAdd(SumAmounts(list, n - 1), list[n].amount)

\* lines 57-64: how many UTXOs the loop takes before its break (or all)
TakenCount(list) ==
    IF \E k \in 1..Len(list) : ~IsNegative(AmountSub(SumAmounts(list, k), BufferedRequired))
    THEN CHOOSE k \in 1..Len(list) :
           /\ ~IsNegative(AmountSub(SumAmounts(list, k), BufferedRequired))
           /\ \A j \in 1..(k - 1) :
                IsNegative(AmountSub(SumAmounts(list, j), BufferedRequired))
    ELSE Len(list)

\* float(x)
Float(x) == [float |-> x]

\* d[key] = value, and del d[key]
DictSet(dict, key, value) ==
    [k \in DOMAIN dict \cup {key} |-> IF k = key THEN value ELSE dict[k]]
DictDel(dict, key) == [k \in DOMAIN dict \ {key} |-> dict[k]]

AbsDiff(a, b) == IF a >= b THEN a - b ELSE b - a

InitFee ==
    /\ pc = "select_utxos"
    /\ utxos \in UtxoLists
    /\ selected_utxos = <<>> /\ total_selected_amount = Amount(0, 0)
    /\ outputs = <<>> /\ attempt = 0 /\ tx_size_vb = 0 /\ total_fee_sats = 0
    /\ change_amount = Amount(0, 0) /\ change_address = Unbound /\ prev_fee = Unbound
    /\ name_error = "none"
    /\ IdleBlock /\ IdleMine /\ IdleTx

\* lines 47-89
SelectUtxos ==
    /\ pc = "select_utxos"
    /\ LET n == TakenCount(utxos)
           total == SumAmounts(utxos, n)
       IN IF utxos = <<>> THEN
               /\ pc' = "NoUtxos"
               /\ UNCHANGED <<selected_utxos, total_selected_amount, outputs>>
          ELSE /\ selected_utxos' = [i \in 1..n |-> [txid |-> utxos[i].txid,
                                                    vout |-> utxos[i].vout]]
               /\ total_selected_amount' = total
               /\ IF IsNegative(AmountSub(total, required_amount))
                  THEN pc' = "NotEnoughFunds" /\ UNCHANGED outputs
                  ELSE /\ pc' = "fee_loop"
                       /\ outputs' = [recipient |-> Float(required_amount),
                                      data |-> Float(Amount(0, 0))]
    /\ UNCHANGED <<utxos, attempt, tx_size_vb, total_fee_sats, change_amount,
                   change_address, prev_fee, name_error>>
    /\ UNCHANGED <<varsBlock, varsMine, varsTx>>

\* lines 91-121: one iteration of "for attempt in range(max_attempts)"; vsize
\* is what the node reports for the transaction built from outputs
FeeAttempt ==
    /\ pc = "fee_loop"
    /\ attempt < max_attempts
    /\ \E vsize \in VSizes :
         LET fee == vsize * fee_rate
             total_fee_btc == Amount(0, fee)
             required_total == AmountAdd(required_amount, total_fee_btc)
             change == AmountSub(total_selected_amount, required_total)
             settled == attempt > 0 /\ prev_fee # Unbound
                          /\ AbsDiff(ValueOf(prev_fee), fee) < 10
         IN /\ tx_size_vb' = vsize
            /\ total_fee_sats' = fee
            /\ change_amount' = change
            /\ IF IsNegative(change) THEN
                    \* line 106
                    /\ pc' = "InsufficientFunds"
                    /\ UNCHANGED <<outputs, change_address, prev_fee, attempt, name_error>>
               ELSE IF ~IsPositive(change) /\ change_address = Unbound THEN
                    \* line 114 reads change_address, which no line has assigned
                    /\ pc' = "NameError"
                    /\ name_error' = "change_address"
                    /\ UNCHANGED <<outputs, change_address, prev_fee, attempt>>
               ELSE /\ IF IsPositive(change)
                       THEN \* lines 110-112
                            /\ change_address' = IF change_address = Unbound
                                                 THEN Bound("change") ELSE change_address
                            /\ outputs' = DictSet(outputs, ValueOf(change_address'),
                                                  Float(change))
                       ELSE \* lines 114-115
                            /\ outputs' = IF ValueOf(change_address) \in DOMAIN outputs
                                          THEN DictDel(outputs, ValueOf(change_address))
                                          ELSE outputs
                            /\ UNCHANGED change_address
                    /\ IF attempt > 0 /\ prev_fee = Unbound THEN
                            \* line 118 would read prev_fee unassigned
                            /\ pc' = "NameError"
                            /\ name_error' = "prev_fee"
                            /\ UNCHANGED <<prev_fee, attempt>>
                       ELSE IF settled THEN
                            \* line 119
                            /\ pc' = "finalize"
                            /\ UNCHANGED <<prev_fee, attempt, name_error>>
                       ELSE \* line 121, and the loop's next value or its end
                            /\ prev_fee' = Bound(fee)
                            /\ attempt' = attempt + 1
                            /\ pc' = IF attempt + 1 < max_attempts
                                     THEN "fee_loop" ELSE "finalize"
                            /\ UNCHANGED name_error
    /\ UNCHANGED <<utxos, selected_utxos, total_selected_amount>>
    /\ UNCHANGED <<varsBlock, varsMine, varsTx>>

\* lines 123-137
Broadcast ==
    /\ pc = "finalize"
    /\ \E complete \in BOOLEAN :
         IF complete
         THEN /\ out_file' = <<[txid_of |-> outputs]>>
              /\ pc' = "done"
         ELSE /\ pc' = "SigningFailed"
              /\ UNCHANGED out_file
    /\ UNCHANGED <<block_header, target_threshold, target_value, pow, nonce,
                   mined_block_header, mined_nonce>>
    /\ UNCHANGED <<varsBlock, varsTx, varsFee>>

NextFee ==
    \/ SelectUtxos
    \/ FeeAttempt
    \/ Broadcast

SpecFee == InitFee /\ [][NextFee]_vars

(***************************************************************************)
(* Property of the week-1 loop.                                            *)
(***************************************************************************)
\* C10: no attempt of the fee loop reads prev_fee or change_address before a
\* line has assigned it.
C10_NoUnboundRead ==
    /\ name_error = "none"
    /\ pc # "NameError"

=============================================================================
